---- MODULE Spec2Model ----
(***************************************************************************)
(* streamlit_app.py: one Streamlit session of the LangGraph agent form.    *)
(* A state is what survives between two script runs (st.session_state,     *)
(* the widget values, os.environ, sys.modules) together with what the last *)
(* run did (what it drew on the page, which external calls it made, how it *)
(* ended).  Every action is one complete run of the script, top to bottom. *)
(***************************************************************************)
EXTENDS Integers, Sequences, FiniteSets, TLC

VARIABLES session_state, environ, graph_loaded,
          api_key, user_question, submit_button,
          number_of_initial_queries, max_research_loops,
          screen, calls, invoked, returned, status

vars == <<session_state, environ, graph_loaded,
          api_key, user_question, submit_button,
          number_of_initial_queries, max_research_loops,
          screen, calls, invoked, returned, status>>

(* ------------------------------ bounds --------------------------------- *)

\* successful submissions explored in one session
MaxHistory == 2

\* items in each list of an entry whose rendering is explored on its own
MaxItems == 2

(* --------------------------- program constants ------------------------- *)

QUERIES_MIN == 1
QUERIES_MAX == 10
QUERIES_DEFAULT == 3
LOOPS_MIN == 1
LOOPS_MAX == 5
LOOPS_DEFAULT == 2

(* ------------------------------ inputs --------------------------------- *)

\* what the user can type in the two text inputs ("" is an empty field)
ApiKeys == {"", "k1", "k2"}

Questions == {"", "q1", "q2"}

\* values the two sidebar number inputs deliver: the user moves the first
\* between its default and its maximum and leaves the second at its default
QueriesValues == {QUERIES_DEFAULT, QUERIES_MAX}

LoopsValues == {LOOPS_DEFAULT}

\* contents of the messages of a graph result, oldest first
Conversation == <<"a1", "a2">>

\* the shape of one item of sources_gathered / generated_queries /
\* reflection_notes: a dict with the keys the renderer looks for, a dict
\* without them, a plain string, an object with a .query attribute, any
\* other object
Shapes == {"dict", "dict_missing", "str", "query_obj", "obj"}

\* the lists the graph returns in a session: empty, or one item of any shape
ItemLists == {<<>>} \cup {<<s>> : s \in Shapes}

\* the lists of an entry whose rendering is explored on its own
WideLists == UNION {[1..k -> Shapes] : k \in 0..MaxItems}

\* GEMINI_API_KEY is not in os.environ
Unset == "<unset>"

(* --------------------------- Python values ----------------------------- *)

None == [type |-> "NoneType"]

Str(s) == [type |-> "str", value |-> s]

List(l) == [type |-> "list", value |-> l]

\* bool(v)
Truthy(v) ==
  CASE v.type = "NoneType" -> FALSE
    [] v.type = "str" -> v.value # ""
    [] v.type = "list" -> v.value # <<>>

(* --------------------------- the agent graph --------------------------- *)

ResultKeys == {"sources_gathered", "generated_queries", "reflection_notes"}

MessageLists == {<<>>, Conversation}

\* the mappings graph.invoke may return: with or without "messages", with
\* or without the three optional keys
ResultDicts ==
  {[k \in {"messages"} |-> m] : m \in MessageLists}
  \cup {[k \in ResultKeys |-> <<>>]}
  \cup {[k \in ResultKeys \cup {"messages"} |-> IF k = "messages" THEN Conversation ELSE l] :
          l \in ItemLists}

\* a result is a dict, or another mapping object that has no .get method
GraphResults ==
  {[has_get |-> TRUE, dict |-> d] : d \in ResultDicts}
  \cup {[has_get |-> FALSE, dict |-> [k \in {"messages"} |-> m]] : m \in MessageLists}

NoResult == [has_get |-> FALSE, dict |-> [k \in {"messages"} |-> <<>>]]

\* exception classes the import and the call can raise
Exceptions == {"ImportError", "Exception"}

\* result.get(key): the default left out
GetWithoutDefault(result, key, default) ==
  IF key \in DOMAIN result.dict THEN List(result.dict[key]) ELSE None

\* result.get(key, default)
Get(result, key, default) ==
  IF key \in DOMAIN result.dict THEN List(result.dict[key]) ELSE default

(* ------------------------- session state, 6-15 ------------------------- *)

StateKeys == {"history", "current_answer", "current_sources",
              "current_queries", "current_reflections"}

Default(k) == IF k = "history" THEN <<>> ELSE None

\* the five keys assigned on every run, the "not in" tests left out
InitialiseEveryRun(ss) ==
  [k \in StateKeys |-> Default(k)]

Initialise(ss) ==
  [k \in StateKeys |-> IF k \in DOMAIN ss THEN ss[k] ELSE Default(k)]

(* ------------------------ history render, 31-70 ------------------------ *)

RenderSource(source_item) ==
  IF source_item = "dict" THEN <<"markdown", "source", "- [title](url)">>
  ELSE IF source_item = "str" THEN <<"markdown", "source", "- item">>
  ELSE <<"markdown", "source", "- str(item)">>

RenderQuery(q_item) ==
  IF q_item = "dict" THEN <<"markdown", "query", "- query (Rationale)">>
  ELSE IF q_item = "str" THEN <<"markdown", "query", "- item">>
  ELSE IF q_item = "query_obj" THEN <<"markdown", "query", "- item.query (Rationale)">>
  ELSE <<"markdown", "query", "- str(item)">>

\* note.get(...) exists on dicts only
RenderReflection(note) ==
  LET head == <<"markdown", "reflection", "Reflection r_idx+1">>
  IN IF note \notin {"dict", "dict_missing"}
     THEN [lines |-> <<head>>, raised |-> "AttributeError"]
     ELSE [lines |-> <<head,
                       <<"markdown", "reflection", "- Sufficient">>,
                       <<"markdown", "reflection", "- Knowledge Gap">>>>
                     \o (IF note = "dict"
                         THEN << <<"markdown", "reflection", "- Follow-up Queries">> >>
                         ELSE <<>>),
           raised |-> ""]

RECURSIVE RenderReflections(_, _)
RenderReflections(notes, r_idx) ==
  IF r_idx > Len(notes) THEN [lines |-> <<>>, raised |-> ""]
  ELSE LET one == RenderReflection(notes[r_idx])
       IN IF one.raised # "" THEN one
          ELSE LET rest == RenderReflections(notes, r_idx + 1)
               IN [lines |-> one.lines \o rest.lines, raised |-> rest.raised]

RenderEntry(entry) ==
  LET user == << <<"chat_message", "user", "">>,
                 <<"markdown", "question", entry["question"].value>> >>
      sources ==
        IF Truthy(entry["sources"])
        THEN << <<"markdown", "source", "**Sources:**">> >>
             \o [i \in 1..Len(entry["sources"].value) |->
                   RenderSource(entry["sources"].value[i])]
        ELSE <<>>
      queries ==
        IF Truthy(entry["queries"])
        THEN << <<"markdown", "query", "**Generated Queries:**">> >>
             \o [i \in 1..Len(entry["queries"].value) |->
                   RenderQuery(entry["queries"].value[i])]
        ELSE <<>>
      notes ==
        IF Truthy(entry["reflections"])
        THEN RenderReflections(entry["reflections"].value, 1)
        ELSE [lines |-> <<>>, raised |-> ""]
      reflections ==
        IF Truthy(entry["reflections"])
        THEN << <<"markdown", "reflection", "**Reflection Notes:**">> >> \o notes.lines
        ELSE <<>>
  IN IF entry["answer"].type # "str"
     THEN [lines |-> user \o << <<"chat_message", "assistant", "">> >>,
           raised |-> "TypeError"]
     ELSE LET body == user
                      \o << <<"chat_message", "assistant", "">>,
                            <<"markdown", "answer", entry["answer"].value>> >>
                      \o sources \o queries \o reflections
          IN IF notes.raised # ""
             THEN [lines |-> body, raised |-> notes.raised]
             ELSE [lines |-> body \o << <<"divider", "", "">> >>, raised |-> ""]

\* the loop of line 36 over reversed(history)
RECURSIVE RenderEntriesNewestFirst(_, _)
RenderEntriesNewestFirst(history, i) ==
  IF i > Len(history) THEN [lines |-> <<>>, raised |-> ""]
  ELSE LET one == RenderEntry(history[Len(history) + 1 - i])
       IN IF one.raised # "" THEN one
          ELSE LET rest == RenderEntriesNewestFirst(history, i + 1)
               IN [lines |-> one.lines \o rest.lines, raised |-> rest.raised]

RECURSIVE RenderEntries(_, _)
RenderEntries(history, i) ==
  IF i > Len(history) THEN [lines |-> <<>>, raised |-> ""]
  ELSE LET one == RenderEntry(history[i])
       IN IF one.raised # "" THEN one
          ELSE LET rest == RenderEntries(history, i + 1)
               IN [lines |-> one.lines \o rest.lines, raised |-> rest.raised]

RenderHistory(history) ==
  LET head == << <<"subheader", "Conversation History", "">> >>
                \o (IF history = <<>>
                    THEN << <<"markdown", "placeholder", "*No history yet. Ask a question above!*">> >>
                    ELSE <<>>)
      rest == RenderEntries(history, 1)
  IN [lines |-> head \o rest.lines, raised |-> rest.raised]

\* lines 18-29: title, sidebar, form
RenderTop ==
  << <<"title", "LangGraph Agent Interface", "">>,
     <<"sidebar", "Agent Configuration", "">>,
     <<"form", "input_form", "">> >>

(* ----------------------- submit handler, 74-129 ------------------------ *)

\* the history mapped to messages ahead of the question (comment, line 91)
InvocationInputWithHistory(question) ==
  [messages |->
     (IF "history" \in DOMAIN session_state
      THEN [i \in 1..Len(session_state["history"]) |->
              [type |-> "human",
               content |-> session_state["history"][i]["question"].value]]
      ELSE <<>>)
     \o << [type |-> "human", content |-> question] >>]

InvocationInput(question) ==
  [messages |-> << [type |-> "human", content |-> question] >>]

Config(n, loops) ==
  [configurable |-> [number_of_initial_queries |-> n, max_research_loops |-> loops]]

\* one external call: what was called, the GEMINI_API_KEY it ran under, and
\* the exception it raised ("" for none)
Call(op, env, exc) == [op |-> op, env |-> env, raised |-> exc]

\* "except Exception" placed first: it takes every exception
ExceptGenericFirst(exc) ==
  <<"error", "exception", "An error occurred while processing your request">>

\* except ImportError / except Exception
Except(exc) ==
  IF exc = "ImportError"
  THEN <<"error", "import", "Failed to import agent components.">>
  ELSE <<"error", "exception", "An error occurred while processing your request">>

\* what the handler leaves behind: the session state, the environment, the
\* module cache, the lines it drew, the external calls it made, and whether
\* it ended in st.rerun()
Outcome(ss, env, loaded, lines, cs, inv, ret, exit) ==
  [ss |-> ss, environ |-> env, graph_loaded |-> loaded, lines |-> lines,
   calls |-> cs, invoked |-> inv, returned |-> ret, exit |-> exit]

\* lines 103-124, once graph.invoke has returned result
Marshal(ss, env, question, cs, inv, result) ==
  LET ret == <<result>>
  IN IF "messages" \notin DOMAIN result.dict
     THEN Outcome(ss, env, TRUE, <<Except("KeyError")>>, cs, inv, ret, "end")
     ELSE IF result.dict["messages"] = <<>>
     THEN Outcome(ss, env, TRUE, <<Except("IndexError")>>, cs, inv, ret, "end")
     ELSE
       LET messages == result.dict["messages"]
           ss1 == [ss EXCEPT !["current_answer"] = Str(messages[Len(messages)])]
       IN IF ~result.has_get
          THEN Outcome(ss1, env, TRUE, <<Except("AttributeError")>>, cs, inv, ret, "end")
          ELSE
            LET ss2 == [ss1 EXCEPT
                          !["current_sources"] = Get(result, "sources_gathered", List(<<>>)),
                          !["current_queries"] = Get(result, "generated_queries", List(<<>>)),
                          !["current_reflections"] = Get(result, "reflection_notes", List(<<>>))]
                entry == [question |-> Str(question),
                          answer |-> ss2["current_answer"],
                          sources |-> ss2["current_sources"],
                          queries |-> ss2["current_queries"],
                          reflections |-> ss2["current_reflections"]]
                ss3 == [ss2 EXCEPT !["history"] = Append(@, entry)]
                ss4 == [ss3 EXCEPT !["current_answer"] = None,
                                   !["current_sources"] = None,
                                   !["current_queries"] = None,
                                   !["current_reflections"] = None]
            IN Outcome(ss4, env, TRUE, <<>>, cs, inv, ret, "rerun")

\* lines 74-129.  imp is the exception the import raises ("" for none; a
\* module already in sys.modules is not executed again), out is what
\* graph.invoke does: raise out.exc, or return out.result
Handler(ss, env, loaded, key, question, n, loops, imp, out) ==
  IF key = ""
  THEN Outcome(ss, env, loaded,
               << <<"error", "validation", "Please enter your Gemini API Key.">> >>,
               <<>>, <<>>, <<>>, "end")
  ELSE IF question = ""
  THEN Outcome(ss, env, loaded,
               << <<"error", "validation", "Please enter your question.">> >>,
               <<>>, <<>>, <<>>, "end")
  ELSE
    LET spinner == <<"spinner", "Agent is processing your request...", "">>
        failed == IF loaded THEN "" ELSE imp
    IN IF failed # ""
       THEN Outcome(ss, env, FALSE, <<spinner, Except(failed)>>,
                    <<Call("import", env, failed)>>, <<>>, <<>>, "end")
       ELSE
         LET env1 == key
             c3 == <<Call("import", env, ""), Call("setenv", env1, ""),
                     Call("invoke", env1, out.exc)>>
             inv == << [input |-> InvocationInput(question), config |-> Config(n, loops)] >>
         IN IF out.exc # ""
            THEN Outcome(ss, env1, TRUE, <<spinner, Except(out.exc)>>, c3, inv, <<>>, "end")
            ELSE LET m == Marshal(ss, env1, question, c3, inv, out.result)
                 IN [m EXCEPT !.lines = <<spinner>> \o @]

(* ---------------------- current_* display, 131-144 --------------------- *)

RenderCurrent(ss) ==
  (IF Truthy(ss["current_answer"])
   THEN << <<"subheader", "current", "Current Answer:">>,
           <<"markdown", "current", ss["current_answer"].value>> >>
   ELSE <<>>)
  \o (IF Truthy(ss["current_sources"])
      THEN << <<"subheader", "current", "Current Sources:">> >> ELSE <<>>)
  \o (IF Truthy(ss["current_queries"])
      THEN << <<"subheader", "current", "Current Generated Queries:">> >> ELSE <<>>)
  \o (IF Truthy(ss["current_reflections"])
      THEN << <<"subheader", "current", "Current Reflection Notes:">> >> ELSE <<>>)

(* ------------------------------ one run -------------------------------- *)

\* One run of the script with the given widget values.  An exception that
\* leaves the script ends the run where it is raised ("aborted"); st.rerun()
\* ends it too and schedules the next run ("rerun").
\* (ss0, hist and h are bound once each: the session state after lines 6-15,
\* the history render, the outcome of the handler.)
ScriptRun(submit, key, question, n, loops, imp, out) ==
  \E ss0 \in {Initialise(session_state)} :
  \E hist \in {RenderHistory(ss0["history"])} :
  \E h \in {IF submit /\ hist.raised = ""
            THEN Handler(ss0, environ, graph_loaded, key, question, n, loops, imp, out)
            ELSE Outcome(ss0, environ, graph_loaded, <<>>, <<>>, <<>>, <<>>, "end")} :
     /\ api_key' = key
     /\ user_question' = question
     /\ submit_button' = submit
     /\ number_of_initial_queries' = n
     /\ max_research_loops' = loops
     /\ session_state' = h.ss
     /\ environ' = h.environ
     /\ graph_loaded' = h.graph_loaded
     /\ calls' = h.calls
     /\ invoked' = h.invoked
     /\ returned' = h.returned
     /\ IF hist.raised # ""
        THEN /\ screen' = RenderTop \o hist.lines \o << <<"exception", hist.raised, "">> >>
             /\ status' = "aborted"
        ELSE IF h.exit = "rerun"
        THEN /\ screen' = RenderTop \o hist.lines \o h.lines
             /\ status' = "rerun"
        ELSE /\ screen' = RenderTop \o hist.lines \o h.lines \o RenderCurrent(h.ss)
             /\ status' = "completed"

Raises(exc) == [exc |-> exc, result |-> NoResult]

Returns(result) == [exc |-> "", result |-> result]

(* ------------------------------ actions -------------------------------- *)

Init ==
  /\ session_state = [k \in {} |-> None]
  /\ environ = Unset
  /\ graph_loaded = FALSE
  /\ api_key = ""
  /\ user_question = ""
  /\ submit_button = FALSE
  /\ number_of_initial_queries = QUERIES_DEFAULT
  /\ max_research_loops = LOOPS_DEFAULT
  /\ screen = <<>>
  /\ calls = <<>>
  /\ invoked = <<>>
  /\ returned = <<>>
  /\ status = "new"

\* the browser opens the page: the first run of the session
Open ==
  /\ status = "new"
  /\ ScriptRun(FALSE, api_key, user_question,
               number_of_initial_queries, max_research_loops, "", Raises(""))

\* the user changes a sidebar number input: a run without a submission
ChangeSidebar(n, loops) ==
  /\ status \in {"completed", "aborted"}
  /\ <<n, loops>> # <<number_of_initial_queries, max_research_loops>>
  /\ ScriptRun(FALSE, api_key, user_question, n, loops, "", Raises(""))

\* the user submits the form with a field empty
SubmitInvalid(key, question) ==
  /\ status \in {"completed", "aborted"}
  /\ key = "" \/ question = ""
  /\ ScriptRun(TRUE, key, question,
               number_of_initial_queries, max_research_loops, "", Raises(""))

\* the user submits and the graph module fails to import
SubmitImportRaises(key, question, exc) ==
  /\ status \in {"completed", "aborted"}
  /\ key # "" /\ question # ""
  /\ ~graph_loaded
  /\ ScriptRun(TRUE, key, question,
               number_of_initial_queries, max_research_loops, exc, Raises(""))

\* the user submits and graph.invoke raises
SubmitInvokeRaises(key, question, exc) ==
  /\ status \in {"completed", "aborted"}
  /\ key # "" /\ question # ""
  /\ ScriptRun(TRUE, key, question,
               number_of_initial_queries, max_research_loops, "", Raises(exc))

\* the user submits and graph.invoke returns
SubmitInvokeReturns(key, question, result) ==
  /\ status \in {"completed", "aborted"}
  /\ key # "" /\ question # ""
  /\ Len(session_state["history"]) < MaxHistory
  /\ ScriptRun(TRUE, key, question,
               number_of_initial_queries, max_research_loops, "", Returns(result))

\* the run after st.rerun() with the button still reading True
RerunStillSubmitted ==
  /\ status = "rerun"
  /\ \E result \in GraphResults :
       ScriptRun(TRUE, api_key, user_question,
                 number_of_initial_queries, max_research_loops, "", Returns(result))

\* the run that st.rerun() scheduled: same widget values, button released
Rerun ==
  /\ status = "rerun"
  /\ ScriptRun(FALSE, api_key, user_question,
               number_of_initial_queries, max_research_loops, "", Raises(""))

Next ==
  \/ Open
  \/ \E n \in QueriesValues, loops \in LoopsValues : ChangeSidebar(n, loops)
  \/ \E key \in ApiKeys, question \in Questions : SubmitInvalid(key, question)
  \/ \E key \in ApiKeys, question \in Questions, exc \in Exceptions :
       SubmitImportRaises(key, question, exc)
  \/ \E key \in ApiKeys, question \in Questions, exc \in Exceptions :
       SubmitInvokeRaises(key, question, exc)
  \/ \E key \in ApiKeys, question \in Questions, result \in GraphResults :
       SubmitInvokeReturns(key, question, result)
  \/ Rerun

Spec == Init /\ [][Next]_vars

(* --------------------- rendering one entry on its own ------------------ *)

\* a result whose three lists are chosen independently, up to MaxItems items
WideResult(sources, queries, reflections) ==
  [has_get |-> TRUE,
   dict |-> [k \in ResultKeys \cup {"messages"} |->
               CASE k = "messages" -> Conversation
                 [] k = "sources_gathered" -> sources
                 [] k = "generated_queries" -> queries
                 [] k = "reflection_notes" -> reflections]]

\* the session right after its first submission succeeded with such a result
InitRender ==
  \E sources \in WideLists, queries \in WideLists, reflections \in WideLists :
  \E h \in {Handler(Initialise([k \in {} |-> None]), Unset, FALSE, "k1", "q1",
                    QUERIES_DEFAULT, LOOPS_DEFAULT, "",
                    Returns(WideResult(sources, queries, reflections)))} :
     /\ session_state = h.ss
     /\ environ = h.environ
     /\ graph_loaded = h.graph_loaded
     /\ api_key = "k1"
     /\ user_question = "q1"
     /\ submit_button = TRUE
     /\ number_of_initial_queries = QUERIES_DEFAULT
     /\ max_research_loops = LOOPS_DEFAULT
     /\ screen = RenderTop \o RenderHistory(<<>>).lines \o h.lines
     /\ calls = h.calls
     /\ invoked = h.invoked
     /\ returned = h.returned
     /\ status = "rerun"

NextRender ==
  \/ Rerun
  \/ \E n \in QueriesValues, loops \in LoopsValues : ChangeSidebar(n, loops)

SpecRender == InitRender /\ [][NextRender]_vars

(* ------------------------------ properties ----------------------------- *)

\* st.session_state.history, empty before the first run has created it
History ==
  IF "history" \in DOMAIN session_state THEN session_state["history"] ELSE <<>>

\* the lines of the page that satisfy Test(line), in page order
Lines(Test(_)) == SelectSeq(screen, Test)

IsValidationError(line) == line[1] = "error" /\ line[2] = "validation"

IsHandlerError(line) == line[1] = "error" /\ line[2] \in {"import", "exception"}

IsPlaceholder(line) == line[2] = "placeholder"

IsChat(line) == line[1] = "markdown" /\ line[2] \in {"question", "answer"}

IsCurrent(line) == line[2] = "current"

IsSourceItem(line) == line[2] = "source" /\ line[3] # "**Sources:**"

IsQueryItem(line) == line[2] = "query" /\ line[3] # "**Generated Queries:**"

IsReflectionItem(line) == line[3] = "Reflection r_idx+1"

\* the last run ended with the submit handler having appended an entry
Succeeded == status = "rerun"

\* C1: history is exactly the successful submissions in order: a run whose
\* submission succeeds appends one entry, for the submitted question, at the
\* end, and every other run leaves the history as it was.
C1_HistoryAccumulates ==
  [][IF Succeeded'
     THEN /\ Len(History') = Len(History) + 1
          /\ SubSeq(History', 1, Len(History)) = History
          /\ History'[Len(History')]["question"] = Str(user_question')
          /\ submit_button'
     ELSE History' = History]_vars

C1_Witness ==
  /\ Succeeded
  /\ Len(History) = 2
  /\ History[1]["question"] # History[2]["question"]

\* C2: a submission with an empty API key, or with a key and an empty
\* question, displays the matching validation error (the key first), calls
\* nothing, writes no environment variable and requests no rerun.
C2_ValidationDisplayed ==
  (submit_button /\ (api_key = "" \/ user_question = "")) =>
    /\ Lines(IsValidationError) =
         << <<"error", "validation",
              IF api_key = "" THEN "Please enter your Gemini API Key."
                              ELSE "Please enter your question.">> >>
    /\ invoked = <<>>
    /\ calls = <<>>
    /\ status # "rerun"

\* C3: a submission whose import succeeds calls graph.invoke exactly once, with
\* the submitted question; a run without a submission, the run after
\* st.rerun() among them, calls it zero times.
C3_InvokedOncePerSubmission ==
  [][/\ (calls' # <<>> /\ calls'[1].raised = "") => Len(invoked') = 1
     /\ Len(invoked') <= 1
     /\ invoked' # <<>> =>
          /\ submit_button' /\ api_key' # "" /\ user_question' # ""
          /\ invoked'[1].input.messages[1].content = user_question'
     /\ ~submit_button' => invoked' = <<>>
     /\ Succeeded => (~submit_button' /\ invoked' = <<>>)]_vars

C3_Witness ==
  /\ status = "completed"
  /\ ~submit_button
  /\ invoked = <<>>
  /\ Len(History) = 1
  /\ user_question = History[1]["question"].value

\* C4: the history render completes without raising, and draws one line for
\* every item of every sources, queries and reflections list of the history.
C4_RenderFallsBack ==
  status \in {"completed", "aborted"} =>
    /\ status = "completed"
    /\ Len(Lines(IsSourceItem)) =
         Cardinality(UNION {{<<e, i>> : i \in 1..Len(History[e]["sources"].value)} :
                              e \in 1..Len(History)})
    /\ Len(Lines(IsQueryItem)) =
         Cardinality(UNION {{<<e, i>> : i \in 1..Len(History[e]["queries"].value)} :
                              e \in 1..Len(History)})
    /\ Len(Lines(IsReflectionItem)) =
         Cardinality(UNION {{<<e, i>> : i \in 1..Len(History[e]["reflections"].value)} :
                              e \in 1..Len(History)})

\* the import, the call or the reading of the result raised in the last run
HandlerRaised ==
  \/ calls # <<>> /\ calls[Len(calls)].raised # ""
  \/ /\ returned # <<>>
     /\ \/ "messages" \notin DOMAIN returned[1].dict
        \/ returned[1].dict["messages"] = <<>>
        \/ ~returned[1].has_get

\* C5: an exception raised by the import, by graph.invoke or by the reading of
\* its result is displayed as one error message (the import message for an
\* ImportError, the generic one otherwise); the run completes, appends
\* nothing, requests no rerun, and the next run reaches the form again.
C5_ExceptionsCaught ==
  [][HandlerRaised' =>
       /\ Len(SelectSeq(screen', IsHandlerError)) = 1
       /\ SelectSeq(screen', IsHandlerError)[1][2] =
            (IF calls'[Len(calls')].raised = "ImportError" THEN "import" ELSE "exception")
       /\ status' = "completed"
       /\ History' = History
       /\ RenderHistory(History').raised = ""]_vars

C5_Witness ==
  /\ HandlerRaised
  /\ calls[Len(calls)].op = "invoke"
  /\ calls[Len(calls)].raised = "ImportError"
  /\ History # <<>>

\* C6: the graph module is imported and graph.invoke is called with
\* GEMINI_API_KEY equal to the API key of the same submission.
C6_KeySetBeforeImportAndInvoke ==
  \A i \in DOMAIN calls :
    calls[i].op \in {"import", "invoke"} => calls[i].env = api_key

\* C7: at the end of every run the four current_* fields are None and none of
\* the "Current ..." sections is on the page.
C7_CurrentFieldsCleared ==
  status # "new" =>
    /\ \A k \in StateKeys \ {"history"} : session_state[k] = None
    /\ Lines(IsCurrent) = <<>>

\* the question and answer lines a history draws, entry by entry
ChatOf(history) ==
  [j \in 1..(2 * Len(history)) |->
     IF j % 2 = 1
     THEN <<"markdown", "question", history[(j + 1) \div 2]["question"].value>>
     ELSE <<"markdown", "answer", history[j \div 2]["answer"].value>>]

\* C8: a run that appends an entry requests a rerun; the run after it draws
\* the question and answer of every entry in insertion order, the new entry
\* last, and no placeholder; a run draws the placeholder exactly when the
\* history is empty when it renders.
C8_RerunShowsNewEntryLast ==
  [][/\ History' # History => status' = "rerun"
     /\ Succeeded =>
          /\ SelectSeq(screen', IsChat) = ChatOf(History)
          /\ SelectSeq(screen', IsPlaceholder) = <<>>
     /\ (SelectSeq(screen', IsPlaceholder) # <<>>) <=> (History = <<>>)]_vars

C8_Witness ==
  /\ status \in {"completed", "aborted"}
  /\ ~submit_button
  /\ calls = <<>>
  /\ Len(History) = 2
  /\ user_question = History[2]["question"].value
  /\ Lines(IsChat) = ChatOf(History)

\* C9: the input of graph.invoke is one human message carrying the submitted
\* question, with the two sidebar settings, each within its range, as the
\* config; it is the same whatever the history holds.
C9_InputIgnoresHistory ==
  invoked # <<>> =>
    /\ invoked =
         << [input |-> [messages |-> << [type |-> "human", content |-> user_question] >>],
             config |-> [configurable |->
                           [number_of_initial_queries |-> number_of_initial_queries,
                            max_research_loops |-> max_research_loops]]] >>
    /\ number_of_initial_queries \in QUERIES_MIN..QUERIES_MAX
    /\ max_research_loops \in LOOPS_MIN..LOOPS_MAX

C9_Witness ==
  /\ invoked # <<>>
  /\ ~Succeeded
  /\ Len(History) = 2
  /\ number_of_initial_queries # QUERIES_DEFAULT

\* result.get(key, []) as the claim states it
OrEmpty(result, key) ==
  IF key \in DOMAIN result.dict THEN result.dict[key] ELSE <<>>

\* C10: the appended entry holds the submitted question, the content of the
\* last message of the result, and the result's three lists, each an empty
\* list when the result lacks the key; every entry has all five keys.
C10_EntryFromResult ==
  /\ \A e \in 1..Len(History) :
       DOMAIN History[e] = {"question", "answer", "sources", "queries", "reflections"}
  /\ Succeeded =>
       LET result == returned[1]
           entry == History[Len(History)]
           messages == result.dict["messages"]
       IN /\ entry["question"] = Str(user_question)
          /\ entry["answer"] = Str(messages[Len(messages)])
          /\ entry["sources"] = List(OrEmpty(result, "sources_gathered"))
          /\ entry["queries"] = List(OrEmpty(result, "generated_queries"))
          /\ entry["reflections"] = List(OrEmpty(result, "reflection_notes"))

C10_Witness ==
  /\ Succeeded
  /\ "sources_gathered" \notin DOMAIN returned[1].dict
  /\ History[Len(History)]["sources"] = List(<<>>)

====
